---- MODULE Spec2Model ----
(***************************************************************************)
(* Model of the row-encoding path of nebula: the chained append buffer     *)
(* (common/base/Cord), the schema-driven RowWriter and the RowSetWriter.   *)
(*                                                                         *)
(* Byte strings are kept run-length encoded (a sequence of runs [b, n]     *)
(* with n > 0 and neighbouring runs of different bytes), so that writes    *)
(* larger than kMaxGrowthSize can be modelled with the program's real      *)
(* constants.  A folly::IOBuf is a record [id, capacity, headroom, data];  *)
(* an IOBuf chain is a sequence of them in chain order, and the empty      *)
(* sequence is the null unique_ptr.                                        *)
(***************************************************************************)
EXTENDS Integers, Sequences, FiniteSets, TLC

VARIABLES
    A,          \* the Cord under test: [size_, head_]
    B,          \* a second Cord, the right-hand side of A << B
    crashed,    \* the process dereferenced a null head_ and died
    ops,        \* number of Cord operations performed
    wA,         \* ghost: the bytes A is expected to hold
    wB,         \* ghost: the bytes B is expected to hold
    pureA,      \* ghost: only appends have been applied to A so far
    grow,       \* ghost: the last capacity-growth decision taken on A
    last_op,    \* ghost: name of the last operation
    pre,        \* ghost: what the last A << B found before it ran
    hdr         \* ghost: what the last prependHeader on A found and attached

cordVars == <<A, B, crashed, ops, wA, wB, pureA, grow, last_op, pre, hdr>>

VARIABLES
    w,          \* the RowWriter: its members, and live = not yet moved into a row set
    rs,         \* the RowSetWriter: [data_, head_]
    steps,      \* number of RowWriter / RowSetWriter operations performed
    fin,        \* ghost: what the finalize calls did and returned
    fieldEnd,   \* ghost: body size measured right after each field was produced
    rows,       \* ghost: the rows handed to the row set, in insertion order
    rsg,        \* ghost: what the row set operations did
    lastw       \* ghost: the last skip request and the writer it was applied to

rowVars == <<w, rs, steps, fin, fieldEnd, rows, rsg, lastw>>

VARIABLES
    v64,        \* a 64-bit value handed to calcOccupiedBytes, as 8 bytes
    occupied    \* the width calcOccupiedBytes returned for v64, 0 before the call

numVars == <<v64, occupied>>

vars == <<cordVars, rowVars, numVars>>

(***************************************************************************)
(* Bounds                                                                  *)
(***************************************************************************)
MaxOps == 4

MaxSteps == 4

(***************************************************************************)
(* Byte strings                                                            *)
(***************************************************************************)
Min(a, b) == IF a < b THEN a ELSE b

Max(a, b) == IF a > b THEN a ELSE b

Run(b, n) == IF n = 0 THEN <<>> ELSE <<[b |-> b, n |-> n]>>

RECURSIVE StrLen(_)
StrLen(s) == IF s = <<>> THEN 0 ELSE s[1].n + StrLen(Tail(s))

Cat(s, t) ==
    IF s = <<>> THEN t
    ELSE IF t = <<>> THEN s
    ELSE IF s[Len(s)].b = t[1].b
         THEN SubSeq(s, 1, Len(s) - 1)
              \o <<[b |-> t[1].b, n |-> s[Len(s)].n + t[1].n]>>
              \o Tail(t)
         ELSE s \o t

RECURSIVE Bytes(_)
Bytes(q) == IF q = <<>> THEN <<>> ELSE Cat(Run(q[1], 1), Bytes(Tail(q)))

RECURSIVE Take(_, _)
Take(s, k) ==
    IF k = 0 \/ s = <<>> THEN <<>>
    ELSE IF s[1].n <= k THEN Cat(<<s[1]>>, Take(Tail(s), k - s[1].n))
         ELSE Run(s[1].b, k)

RECURSIVE Drop(_, _)
Drop(s, k) ==
    IF k = 0 \/ s = <<>> THEN s
    ELSE IF s[1].n <= k THEN Drop(Tail(s), k - s[1].n)
         ELSE <<[b |-> s[1].b, n |-> s[1].n - k]>> \o Tail(s)

(***************************************************************************)
(* folly::IOBuf                                                            *)
(***************************************************************************)
IOBufCreate(capacity, id) ==
    [id |-> id, capacity |-> capacity, headroom |-> 0, data |-> <<>>]

length(b) == StrLen(b.data)

tailroom(b) == b.capacity - b.headroom - length(b)

\* IOBuf::reserve: afterwards headroom >= minHeadroom and tailroom >= minTailroom;
\* the data slides to minHeadroom when the buffer is already big enough.
IOBufReserve(b, minHeadroom, minTailroom) ==
    IF b.headroom >= minHeadroom /\ tailroom(b) >= minTailroom THEN b
    ELSE IF b.headroom + tailroom(b) >= minHeadroom + minTailroom
         THEN [b EXCEPT !.headroom = minHeadroom]
         ELSE [b EXCEPT !.headroom = minHeadroom,
                        !.capacity = minHeadroom + length(b) + minTailroom]

RECURSIVE computeChainDataLength(_)
computeChainDataLength(chain) ==
    IF chain = <<>> THEN 0
    ELSE length(chain[1]) + computeChainDataLength(Tail(chain))

RECURSIVE Flatten(_)
Flatten(chain) ==
    IF chain = <<>> THEN <<>> ELSE Cat(chain[1].data, Flatten(Tail(chain)))

\* head->prependChain(x) links x in front of head in the circular list, which is
\* the end of the chain that starts at head.
prependChain(head, x) == head \o x

ChainIds(chain) == {chain[i].id : i \in 1..Len(chain)}

(***************************************************************************)
(* Cord                                                                    *)
(***************************************************************************)
kBufferAlignment == 256

kMaxGrowthSize == 262144

EmptyCord == [size_ |-> 0, head_ |-> <<>>]

alignedSize(size) ==
    ((size + kBufferAlignment - 1) \div kBufferAlignment) * kBufferAlignment

last(c) == c.head_[Len(c.head_)]

SetLast(c, b) == [c EXCEPT !.head_[Len(c.head_)] = b]

\* Faulty variant: the doubling is not capped at kMaxGrowthSize.
NewCapacity_Unbounded(capacity, size) ==
    IF capacity * 2 > size THEN capacity * 2 ELSE size

\* The capacity the chained branch asks for.
NewCapacity(capacity, size) ==
    LET doubled == capacity * 2
        capped  == IF doubled > kMaxGrowthSize THEN kMaxGrowthSize ELSE doubled
    IN  IF capped > size THEN capped ELSE size

\* Which branch of the growth policy makeRoomForWrite(size) takes on c.
GrowthBranch(c, size) ==
    IF c.head_ = <<>> THEN "create"
    ELSE IF size <= tailroom(last(c)) THEN "none"
    ELSE IF length(last(c)) <= last(c).capacity \div 2 THEN "inplace"
    ELSE "chain"

\* Faulty variant: the in-place branch reserves the missing bytes only.
makeRoomForWriteSlow_NeedOnly(c, size, id) ==
    LET room     == tailroom(last(c))
        capacity == last(c).capacity
    IN  IF length(last(c)) <= capacity \div 2
        THEN LET need == size - room
             IN  SetLast(c, IOBufReserve(last(c), 0, alignedSize(need)))
        ELSE [c EXCEPT !.head_ =
                 prependChain(c.head_, <<IOBufCreate(NewCapacity(capacity, size), id)>>)]

makeRoomForWriteSlow(c, size, id) ==
    LET room     == tailroom(last(c))
        capacity == last(c).capacity
    IN  IF length(last(c)) <= capacity \div 2
        THEN LET need == size - room
             IN  SetLast(c, IOBufReserve(last(c), 0, alignedSize(capacity + need)))
        ELSE [c EXCEPT !.head_ =
                 prependChain(c.head_, <<IOBufCreate(NewCapacity(capacity, size), id)>>)]

makeRoomForWrite(c, size, id) ==
    IF c.head_ = <<>>
    THEN [c EXCEPT !.head_ = <<IOBufCreate(alignedSize(size), id)>>]
    ELSE IF size <= tailroom(last(c)) THEN c
    ELSE makeRoomForWriteSlow(c, size, id)

\* memcpy(tail(), data, n) followed by advance(n)
advance(c, s) ==
    [SetLast(c, [last(c) EXCEPT !.data = Cat(last(c).data, s)])
        EXCEPT !.size_ = c.size_ + StrLen(s)]

\* operator<<(T value), operator<<(const T&), operator<<(const T*)
Write(c, s, id) == advance(makeRoomForWrite(c, StrLen(s), id), s)

CordReserve(reserve, id) == makeRoomForWrite(EmptyCord, reserve, id)

clear(c) == EmptyCord

\* std::move(head_): the chain leaves, size_ stays as it was
move(c) == [c EXCEPT !.head_ = <<>>]

prependHeader(c, header) ==
    LET size == computeChainDataLength(header)
    IN  IF c.head_ = <<>>
        THEN [size_ |-> size, head_ |-> header]
        ELSE [size_ |-> c.size_ + size, head_ |-> header \o c.head_]

\* empty() is size() == 0; apply() walks head_ unless empty()
applyFaults(c) == c.size_ # 0 /\ c.head_ = <<>>

apply(c) == IF c.size_ = 0 THEN <<>> ELSE Flatten(c.head_)

clone(c) == c.head_

\* Cord::operator<<(const Cord&): a null head_ is dereferenced when rhs is not
\* empty and either rhs (inside apply) or this (prependChain) has no head.
AppendCordFaults(c, rhs) ==
    rhs.size_ # 0 /\ (rhs.head_ = <<>> \/ c.head_ = <<>>)

\* Faulty variant: the right-hand side's segments are chained in, not copied.
AppendCord_Share(c, rhs, id) ==
    IF rhs.size_ = 0 THEN c
    ELSE [size_ |-> c.size_ + rhs.size_,
          head_ |-> prependChain(c.head_, clone(rhs))]

AppendCord(c, rhs, id) ==
    LET rhsSize == rhs.size_
        newTail == [IOBufCreate(rhsSize, id) EXCEPT !.data = apply(rhs)]
    IN  IF rhsSize = 0 THEN c
        ELSE [size_ |-> c.size_ + rhsSize,
              head_ |-> prependChain(c.head_, <<newTail>>)]

(***************************************************************************)
(* Cord: the state machine                                                 *)
(***************************************************************************)
AllIds == ChainIds(A.head_) \cup ChainIds(B.head_)

FreshId == IF AllIds = {} THEN 1
           ELSE 1 + CHOOSE m \in AllIds : \A x \in AllIds : x <= m

NoGrow == [branch |-> "none", requested |-> 0, size |-> 0, capacity |-> 0,
           set |-> FALSE, had |-> FALSE, len |-> 0, room |-> 0, segs |-> 0,
           roomAfter |-> 0, capAfter |-> 0, segsAfter |-> 0, sameTail |-> FALSE]

GrowthOf(c, size) ==
    LET br == GrowthBranch(c, size)
        c2 == makeRoomForWrite(c, size, 0)
    IN  [branch    |-> br,
         requested |-> IF br \in {"create", "chain"} THEN last(c2).capacity
                       ELSE IF br = "inplace" THEN tailroom(last(c2))
                       ELSE 0,
         size      |-> size,
         capacity  |-> IF c.head_ = <<>> THEN 0 ELSE last(c).capacity,
         set       |-> TRUE,
         had       |-> c.head_ # <<>>,
         len       |-> IF c.head_ = <<>> THEN 0 ELSE length(last(c)),
         room      |-> IF c.head_ = <<>> THEN 0 ELSE tailroom(last(c)),
         segs      |-> Len(c.head_),
         roomAfter |-> tailroom(last(c2)),
         capAfter  |-> last(c2).capacity,
         segsAfter |-> Len(c2.head_),
         sameTail  |-> c.head_ # <<>> /\ last(c2).id = last(c).id]

Scalars == { Bytes(<<1>>), Bytes(<<7, 0, 0, 0>>) }

Strings == { <<>>, Bytes(<<97, 98>>), Run(100, 200), Run(101, 300000) }

CStrings == { Bytes(<<99, 100, 101>>) }

RhsStrings == { Bytes(<<99, 100, 101>>), Run(102, 200) }

Reserves == { 0, 300 }

Headers == { <<[IOBufCreate(12, 0) EXCEPT !.headroom = 10, !.data = Bytes(<<0, 16>>)]>> }

NoPre == [a |-> <<>>, b |-> <<>>, sa |-> 0, sb |-> 0, had |-> FALSE, ids |-> {}]

NoHdr == [on |-> FALSE, h |-> <<>>, prev |-> <<>>, sa |-> 0, had |-> FALSE, tail |-> 0]

CordInit ==
    /\ A \in {EmptyCord} \cup {CordReserve(r, 1) : r \in Reserves}
    /\ B = EmptyCord
    /\ crashed = FALSE
    /\ ops = 0
    /\ wA = <<>>
    /\ wB = <<>>
    /\ pureA = TRUE
    /\ grow = NoGrow
    /\ last_op = "init"
    /\ pre = NoPre
    /\ hdr = NoHdr

Live == ~crashed /\ ops < MaxOps

AppendA(s, name) ==
    /\ Live
    /\ A' = Write(A, s, FreshId)
    /\ grow' = GrowthOf(A, StrLen(s))
    /\ wA' = Cat(wA, s)
    /\ ops' = ops + 1
    /\ last_op' = name
    /\ UNCHANGED <<B, crashed, wB, pureA, pre, hdr, rowVars, numVars>>

AppendScalar == \E s \in Scalars : AppendA(s, "scalar")

AppendBytes == \E s \in Strings : AppendA(s, "bytes")

AppendCStr == \E s \in CStrings : AppendA(s, "cstr")

AppendCordAB ==
    /\ Live
    /\ IF AppendCordFaults(A, B)
       THEN /\ crashed' = TRUE
            /\ UNCHANGED <<A, wA, pre>>
       ELSE /\ A' = AppendCord(A, B, FreshId)
            /\ wA' = Cat(wA, wB)
            /\ pre' = [a |-> apply(A), b |-> apply(B), sa |-> A.size_,
                       sb |-> B.size_, had |-> A.head_ # <<>>,
                       ids |-> AllIds]
            /\ crashed' = FALSE
    /\ ops' = ops + 1
    /\ last_op' = "cord"
    /\ UNCHANGED <<B, wB, pureA, grow, hdr, rowVars, numVars>>

AppendB ==
    /\ Live
    /\ \E s \in RhsStrings :
         /\ B' = Write(B, s, FreshId)
         /\ wB' = Cat(wB, s)
    /\ ops' = ops + 1
    /\ last_op' = "rhs"
    /\ UNCHANGED <<A, crashed, wA, pureA, grow, pre, hdr, rowVars, numVars>>

MakeRoomA ==
    /\ Live
    /\ \E n \in Reserves :
         /\ A' = makeRoomForWrite(A, n, FreshId)
         /\ grow' = GrowthOf(A, n)
    /\ ops' = ops + 1
    /\ last_op' = "room"
    /\ UNCHANGED <<B, crashed, wA, wB, pureA, pre, hdr, rowVars, numVars>>

ClearA ==
    /\ Live
    /\ A' = clear(A)
    /\ wA' = <<>>
    /\ pureA' = FALSE
    /\ hdr' = NoHdr
    /\ ops' = ops + 1
    /\ last_op' = "clear"
    /\ UNCHANGED <<B, crashed, wB, grow, pre, rowVars, numVars>>

MoveA ==
    /\ Live
    /\ A' = move(A)
    /\ wA' = <<>>
    /\ pureA' = FALSE
    /\ hdr' = NoHdr
    /\ ops' = ops + 1
    /\ last_op' = "move"
    /\ UNCHANGED <<B, crashed, wB, grow, pre, rowVars, numVars>>

PrependHeaderA ==
    /\ Live
    /\ \E h \in Headers :
         /\ A' = prependHeader(A, <<[h[1] EXCEPT !.id = FreshId]>>)
         /\ wA' = Cat(Flatten(h), wA)
         /\ hdr' = [on   |-> TRUE,
                    h    |-> Flatten(h),
                    prev |-> Flatten(A.head_),
                    sa   |-> A.size_,
                    had  |-> A.head_ # <<>>,
                    tail |-> IF A.head_ = <<>> THEN 0 ELSE last(A).id]
    /\ pureA' = FALSE
    /\ ops' = ops + 1
    /\ last_op' = "header"
    /\ UNCHANGED <<B, crashed, wB, grow, pre, rowVars, numVars>>

CordNext ==
    \/ AppendScalar
    \/ AppendBytes
    \/ AppendCStr
    \/ AppendCordAB
    \/ AppendB
    \/ MakeRoomA
    \/ ClearA
    \/ MoveA
    \/ PrependHeaderA

(***************************************************************************)
(* 64-bit values: eight bytes, least significant first (the host layout    *)
(* that memcpy(tail, &value, n) copies from)                               *)
(***************************************************************************)
RECURSIVE LE(_, _)
LE(n, k) == IF k = 0 THEN <<>> ELSE <<n % 256>> \o LE(n \div 256, k - 1)

U64(n) == LE(n, 8)

Zero64 == U64(0)

RECURSIVE BitLen(_)
BitLen(b) == IF b = 0 THEN 0 ELSE 1 + BitLen(b \div 2)

\* __builtin_clzl on a non-zero 64-bit value
Clzl(v) ==
    LET top == CHOOSE i \in 1..8 : v[i] # 0 /\ \A j \in (i + 1)..8 : v[j] = 0
    IN  8 * (8 - top) + (8 - BitLen(v[top]))

\* Faulty variant: every value is taken to fit one byte.
calcOccupiedBytes_OneByte(v) == 1

\* Faulty variant: whole bytes below the highest set bit, rounded down.
calcOccupiedBytes_RoundDown(v) ==
    IF v = Zero64 THEN 1 ELSE Max(1, (64 - Clzl(v)) \div 8)

calcOccupiedBytes(v) == IF v = Zero64 THEN 1 ELSE 8 - Clzl(v) \div 8

\* version > 0 on the signed 64-bit value
Positive(v) == v # Zero64 /\ v[8] < 128

\* memcpy(tail, &value, n)
LowBytes(v, n) == Bytes(SubSeq(v, 1, n))

(***************************************************************************)
(* Schemas (the schema provider is an external collaborator)               *)
(***************************************************************************)
Rep(t, n) == [i \in 1..n |-> t]

Schemas ==
    { [types |-> <<"BOOL", "STRING">>, ver |-> Zero64],
      [types |-> Rep("BOOL", 18), ver |-> Zero64],
      [types |-> Rep("DOUBLE", 34), ver |-> U64(300)],
      [types |-> <<"INT", "FLOAT", "DOUBLE", "STRING", "VID", "TIMESTAMP">>
                 \o Rep("BOOL", 11), ver |-> <<0, 0, 0, 0, 0, 0, 0, 1>>],
      [types |-> <<>>, ver |-> U64(1)] }

\* The schema a SchemaWriter starts with
NewSchema == [types |-> <<>>, ver |-> Zero64]

getNumFields(schema) == Len(schema.types)

getFieldType(schema, i) == schema.types[i + 1]

FloatBytes(v) == IF v = "1.0" THEN Bytes(<<0, 0, 128, 63>>) ELSE Run(0, 4)

DoubleBytes(v) == IF v = "1.0" THEN Bytes(<<0, 0, 0, 0, 0, 0, 240, 63>>) ELSE Run(0, 8)

BoolBytes(v) == IF v THEN Bytes(<<1>>) ELSE Bytes(<<0>>)

(***************************************************************************)
(* RowWriter                                                               *)
(***************************************************************************)
NextId(chain) ==
    IF chain = <<>> THEN 1
    ELSE 1 + CHOOSE m \in ChainIds(chain) : \A x \in ChainIds(chain) : x <= m

CordWrite(c, s) == Write(c, s, NextId(c.head_))

NewRowWriter(schema, owned) ==
    [schema_       |-> schema,
     schemaWriter_ |-> owned,
     cord_         |-> EmptyCord,
     blockOffsets_ |-> <<>>,
     colNum_       |-> 0,
     colName_      |-> "",
     colType_      |-> "",
     encoded_      |-> FALSE,
     live          |-> TRUE]

\* RowWriter(schema): without a schema the writer creates a SchemaWriter
RowWriterInit(schema, given) ==
    IF ~given THEN NewRowWriter(NewSchema, TRUE)
    ELSE NewRowWriter(schema, FALSE)

\* writeInt: the length / integer helper, in the minimal number of bytes
writeInt(c, v) == CordWrite(c, LowBytes(U64(v), calcOccupiedBytes(U64(v))))

RowWriter_size(rw) ==
    LET offsetBytes == calcOccupiedBytes(U64(rw.cord_.size_))
        verBytes    == IF Positive(rw.schema_.ver)
                       THEN calcOccupiedBytes(rw.schema_.ver) ELSE 0
    IN  rw.cord_.size_ + offsetBytes * Len(rw.blockOffsets_) + verBytes + 1

\* One field's default value, as Skip writes it
DefaultWrite(c, type) ==
    CASE type = "BOOL"      -> CordWrite(c, BoolBytes(FALSE))
      [] type = "INT"       -> writeInt(c, 0)
      [] type = "TIMESTAMP" -> writeInt(c, 0)
      [] type = "FLOAT"     -> CordWrite(c, FloatBytes("0.0"))
      [] type = "DOUBLE"    -> CordWrite(c, DoubleBytes("0.0"))
      [] type = "STRING"    -> writeInt(c, 0)
      [] type = "VID"       -> CordWrite(c, Run(0, 8))

\* Faulty variant: the test forgets i != 0.
BlockBoundary_AtZero(i) == (i \div 16) * 16 = i

\* The test Skip applies after field i: i != 0 && (i >> 4 << 4) == i
BlockBoundary(i) == i # 0 /\ (i \div 16) * 16 = i

RECURSIVE SkipLoop(_, _, _)
SkipLoop(rw, i, skipTo) ==
    IF i >= skipTo THEN rw
    ELSE LET c2 == DefaultWrite(rw.cord_, getFieldType(rw.schema_, i))
         IN  SkipLoop([rw EXCEPT !.cord_ = c2,
                                 !.blockOffsets_ =
                                     IF BlockBoundary(i) THEN Append(@, c2.size_) ELSE @],
                      i + 1, skipTo)

\* Faulty variant: the test of toSkip <= 0 is missing.
Skip_Unchecked(rw, toSkip) ==
    LET skipTo == Min(rw.colNum_ + toSkip, getNumFields(rw.schema_))
    IN  [SkipLoop(rw, rw.colNum_, skipTo) EXCEPT !.colNum_ = skipTo]

Skip(rw, toSkip) ==
    IF toSkip <= 0 THEN rw
    ELSE LET skipTo == Min(rw.colNum_ + toSkip, getNumFields(rw.schema_))
         IN  [SkipLoop(rw, rw.colNum_, skipTo) EXCEPT !.colNum_ = skipTo]

\* RW_GET_COLUMN_TYPE: the declared type of the next field; past the schema's
\* end (schema-defining mode) the pending ColType, or else the value's own type.
ColumnType(rw, natural) ==
    IF rw.colNum_ >= getNumFields(rw.schema_)
    THEN IF rw.colType_ = "" THEN natural ELSE rw.colType_
    ELSE getFieldType(rw.schema_, rw.colNum_)

\* Writing past the end of a supplied schema is fatal.
CanWrite(rw) == rw.colNum_ < getNumFields(rw.schema_) \/ rw.schemaWriter_

\* RW_CLEAN_UP_WRITE: after completing field i, record a block offset when
\* i != 0 and i mod 16 = 0, advance the column index, and in schema-defining
\* mode declare the new field and drop the pending tokens.
CleanUpWrite(rw, c2, type) ==
    LET i == rw.colNum_
    IN  [rw EXCEPT
            !.cord_ = c2,
            !.colNum_ = i + 1,
            !.blockOffsets_ = IF i # 0 /\ i % 16 = 0 THEN Append(@, c2.size_) ELSE @,
            !.schema_.types = IF i >= getNumFields(rw.schema_) THEN Append(@, type) ELSE @,
            !.colName_ = IF i >= getNumFields(rw.schema_) THEN "" ELSE @,
            !.colType_ = IF i >= getNumFields(rw.schema_) THEN "" ELSE @]

WriteBool(rw, v) ==
    LET type == ColumnType(rw, "BOOL")
    IN  CleanUpWrite(rw,
            IF type = "BOOL" THEN CordWrite(rw.cord_, BoolBytes(v))
            ELSE CordWrite(rw.cord_, BoolBytes(FALSE)),
            type)

WriteFloat(rw, v) ==
    LET type == ColumnType(rw, "FLOAT")
    IN  CleanUpWrite(rw,
            IF type = "FLOAT" THEN CordWrite(rw.cord_, FloatBytes(v))
            ELSE IF type = "DOUBLE" THEN CordWrite(rw.cord_, DoubleBytes(v))
            ELSE CordWrite(rw.cord_, FloatBytes("0.0")),
            type)

WriteDouble(rw, v) ==
    LET type == ColumnType(rw, "DOUBLE")
    IN  CleanUpWrite(rw,
            IF type = "FLOAT" THEN CordWrite(rw.cord_, FloatBytes(v))
            ELSE IF type = "DOUBLE" THEN CordWrite(rw.cord_, DoubleBytes(v))
            ELSE CordWrite(rw.cord_, DoubleBytes("0.0")),
            type)

WriteString(rw, v) ==
    LET type == ColumnType(rw, "STRING")
    IN  CleanUpWrite(rw,
            IF type = "STRING" THEN CordWrite(writeInt(rw.cord_, StrLen(v)), v)
            ELSE writeInt(rw.cord_, 0),
            type)

\* Faulty variant: the padding runs for the writers that build their own schema.
PadsBeforeHeader_Defining(rw) == rw.schemaWriter_

\* The test encodeToIOBuf makes before it pads: if (!schemaWriter_)
PadsBeforeHeader(rw) == ~rw.schemaWriter_

\* Faulty variant: no padding at all.
Padded_Never(rw) == rw

\* The padding encodeToIOBuf runs before it builds the header
Padded(rw) ==
    IF PadsBeforeHeader(rw) THEN Skip(rw, getNumFields(rw.schema_) - rw.colNum_) ELSE rw

maxRowLenBytes == 10

\* A byte of memory that was allocated and never written
Uninit == 255

RECURSIVE OffsetBytes(_, _)
OffsetBytes(offsets, offsetBytes) ==
    IF offsets = <<>> THEN <<>>
    ELSE Cat(LowBytes(U64(offsets[1]), offsetBytes),
             OffsetBytes(Tail(offsets), offsetBytes))

\* Faulty variant: headerBytes keeps the version byte of an unversioned schema.
HeaderBuffer_KeepVersionByte(p, id) ==
    LET version     == p.schema_.ver
        offsetBytes == calcOccupiedBytes(U64(p.cord_.size_))
        verBytes    == calcOccupiedBytes(version)
        headerBytes == offsetBytes * Len(p.blockOffsets_) + verBytes + 1
        header      == offsetBytes - 1
        written     ==
            Cat(IF Positive(version)
                THEN Cat(Bytes(<<(header + verBytes * 32) % 256>>),
                         LowBytes(version, verBytes))
                ELSE Bytes(<<header>>),
                OffsetBytes(p.blockOffsets_, offsetBytes))
        appended    == headerBytes
    IN  [id       |-> id,
         capacity |-> headerBytes + maxRowLenBytes,
         headroom |-> maxRowLenBytes,
         data     |-> Take(Cat(written, Run(Uninit, headerBytes)), appended)]

\* Faulty variant: the header buffer is not advanced past the row-length headroom.
HeaderBuffer_NoHeadroom(p, id) ==
    LET version     == p.schema_.ver
        offsetBytes == calcOccupiedBytes(U64(p.cord_.size_))
        verBytes    == calcOccupiedBytes(version)
        headerBytes == offsetBytes * Len(p.blockOffsets_) + verBytes + 1
        header      == offsetBytes - 1
        written     ==
            Cat(IF Positive(version)
                THEN Cat(Bytes(<<(header + verBytes * 32) % 256>>),
                         LowBytes(version, verBytes))
                ELSE Bytes(<<header>>),
                OffsetBytes(p.blockOffsets_, offsetBytes))
        appended    == IF Positive(version) THEN headerBytes ELSE headerBytes - verBytes
    IN  [id       |-> id,
         capacity |-> headerBytes + maxRowLenBytes,
         headroom |-> 0,
         data     |-> Take(Cat(written, Run(Uninit, headerBytes)), appended)]

\* The header buffer encodeToIOBuf builds for the padded writer p
HeaderBuffer(p, id) ==
    LET version     == p.schema_.ver
        offsetBytes == calcOccupiedBytes(U64(p.cord_.size_))
        verBytes    == calcOccupiedBytes(version)
        headerBytes == offsetBytes * Len(p.blockOffsets_) + verBytes + 1
        header      == offsetBytes - 1
        written     ==
            Cat(IF Positive(version)
                THEN Cat(Bytes(<<(header + verBytes * 32) % 256>>),
                         LowBytes(version, verBytes))
                ELSE Bytes(<<header>>),
                OffsetBytes(p.blockOffsets_, offsetBytes))
        appended    == IF Positive(version) THEN headerBytes ELSE headerBytes - verBytes
    IN  [id       |-> id,
         capacity |-> headerBytes + maxRowLenBytes,
         headroom |-> maxRowLenBytes,
         data     |-> Take(Cat(written, Run(Uninit, headerBytes)), appended)]

\* Faulty variant: the encoded_ test is missing, every call builds a header.
encodeToIOBuf_Again(rw) ==
    LET p == Padded(rw)
    IN  [p EXCEPT
            !.cord_ = prependHeader(p.cord_,
                          <<HeaderBuffer(p, NextId(p.cord_.head_))>>),
            !.encoded_ = TRUE]

\* The writer after encodeToIOBuf(); the call returns clone(cord_)
encodeToIOBuf(rw) ==
    IF rw.encoded_ THEN rw
    ELSE LET p == Padded(rw)
         IN  [p EXCEPT
                 !.cord_ = prependHeader(p.cord_,
                               <<HeaderBuffer(p, NextId(p.cord_.head_))>>),
                 !.encoded_ = TRUE]

\* The writer after encodeTo(encoded); the call appends apply(cord_) to encoded
encodeTo(rw) == IF ~rw.encoded_ THEN encodeToIOBuf(rw) ELSE rw

\* RowWriter::move(): finalize, then hand the chain over
RowWriter_move(rw) ==
    LET e == encodeTo(rw) IN [e EXCEPT !.cord_ = move(e.cord_), !.live = FALSE]

(***************************************************************************)
(* RowSetWriter                                                            *)
(***************************************************************************)
\* Faulty variant: the continuation bit is never set.
RECURSIVE encodeVarint_NoFlag(_)
encodeVarint_NoFlag(val) ==
    IF val >= 128 THEN <<val % 128>> \o encodeVarint_NoFlag(val \div 128)
    ELSE <<val>>

\* folly::encodeVarint: 7 value bits per byte, low group first, 0x80 set on
\* every byte but the last
RECURSIVE encodeVarint(_)
encodeVarint(val) ==
    IF val >= 128 THEN <<128 + (val % 128)>> \o encodeVarint(val \div 128)
    ELSE <<val>>

\* writeRowLength(int64_t len) on data_
writeRowLength(data, len) == Cat(data, Bytes(encodeVarint(len)))

\* DCHECK_GE(buf->headroom(), len) in writeRowLength(folly::IOBuf*)
HeadroomFits(row) ==
    row[1].headroom >= Len(encodeVarint(computeChainDataLength(row)))

\* writeRowLength(folly::IOBuf* buf): prepend(len), then memcpy at writableData()
writeRowLengthBuf(row) ==
    LET bytes == encodeVarint(computeChainDataLength(row))
    IN  [row EXCEPT ![1].headroom = @ - Len(bytes),
                    ![1].data = Cat(Bytes(bytes), @)]

\* head_ = row, or head_->prependChain(row)
Chain(head, row) == IF head = <<>> THEN row ELSE prependChain(head, row)

EmptyRowSet == [data_ |-> <<>>, head_ |-> <<>>]

\* addRow(const std::string&)
addRowBytes(set, data) ==
    [set EXCEPT !.data_ = Cat(writeRowLength(set.data_, StrLen(data)), data)]

\* addAll(const std::string&)
addAllBytes(set, data) == [set EXCEPT !.data_ = Cat(set.data_, data)]

\* addRow(std::unique_ptr<folly::IOBuf>) and the tail of addRow(RowWriter&&)
addRowBuf(set, row) == [set EXCEPT !.head_ = Chain(set.head_, writeRowLengthBuf(row))]

\* addAll(std::unique_ptr<folly::IOBuf>)
addAllBuf(set, rws) == [set EXCEPT !.head_ = Chain(set.head_, rws)]

\* addRow(RowWriter&): the length prefix is writer.size() as it is before
\* encodeTo runs
addRowWriter(set, rw) ==
    [set EXCEPT !.data_ =
        Cat(writeRowLength(set.data_, RowWriter_size(rw)), apply(encodeTo(rw).cord_))]

(***************************************************************************)
(* RowWriter and RowSetWriter: the state machine                           *)
(***************************************************************************)
NoFin == [calls |-> 0, hdr |-> 0, out |-> <<>>, first |-> <<>>,
          sizeBefore |-> 0, body |-> <<>>, snap |-> <<>>, buf |-> <<>>,
          padded |-> 0, vias |-> {}, skip |-> FALSE, raw |-> <<>>]

NoRows == [inl |-> <<>>, chain |-> <<>>]

NoRsg == [failed |-> "", inlOnlyRows |-> TRUE, chainOnlyRows |-> TRUE,
          prefix |-> 0, rowLen |-> 0]

NoLast == [op |-> "", n |-> 0, w |-> <<>>]

NumIdle == v64 = <<0, 0, 0, 0, 0, 0, 0, 0>> /\ occupied = 0

RowIdle ==
    /\ w = RowWriterInit(NewSchema, FALSE)
    /\ rs = EmptyRowSet
    /\ steps = 0
    /\ fin = NoFin
    /\ fieldEnd = <<>>
    /\ rows = NoRows
    /\ rsg = NoRsg
    /\ lastw = NoLast

CordIdle ==
    /\ A = EmptyCord
    /\ B = EmptyCord
    /\ crashed = FALSE
    /\ ops = 0
    /\ wA = <<>>
    /\ wB = <<>>
    /\ pureA = TRUE
    /\ grow = NoGrow
    /\ last_op = "init"
    /\ pre = NoPre
    /\ hdr = NoHdr

Init ==
    /\ CordIdle
    /\ w \in {RowWriterInit(s, TRUE) : s \in Schemas} \cup {RowWriterInit(NewSchema, FALSE)}
    /\ rs = EmptyRowSet
    /\ steps = 0
    /\ fin = NoFin
    /\ fieldEnd = <<>>
    /\ rows = NoRows
    /\ rsg = NoRsg
    /\ lastw = NoLast
    /\ NumIdle

Running == steps < MaxSteps /\ rsg.failed = ""

Writing == Running /\ w.live /\ ~w.encoded_

Bools == {TRUE}

Floats == {"1.0"}

FieldStrings == { Bytes(<<97, 98>>), Run(120, 300) }

ColTypes == {"DOUBLE", "STRING"}

SkipCounts == {-1, 1, 16, 40}

\* Body sizes after each of the fields that skip(n) produces on rw
RECURSIVE SkipEndsFrom(_, _, _)
SkipEndsFrom(rw, i, skipTo) ==
    IF i >= skipTo THEN <<>>
    ELSE LET r == SkipLoop(rw, i, i + 1)
         IN  <<r.cord_.size_>> \o SkipEndsFrom(r, i + 1, skipTo)

SkipEnds(rw, n) ==
    IF n <= 0 THEN <<>>
    ELSE SkipEndsFrom(rw, rw.colNum_, Min(rw.colNum_ + n, getNumFields(rw.schema_)))

Field(rw2) ==
    /\ w' = rw2
    /\ fieldEnd' = Append(fieldEnd, rw2.cord_.size_)
    /\ lastw' = NoLast
    /\ steps' = steps + 1
    /\ UNCHANGED <<rs, fin, rows, rsg, cordVars, numVars>>

PutBool == Writing /\ CanWrite(w) /\ \E v \in Bools : Field(WriteBool(w, v))

PutFloat == Writing /\ CanWrite(w) /\ \E v \in Floats : Field(WriteFloat(w, v))

PutDouble == Writing /\ CanWrite(w) /\ \E v \in Floats : Field(WriteDouble(w, v))

PutString == Writing /\ CanWrite(w) /\ \E v \in FieldStrings : Field(WriteString(w, v))

\* operator<<(ColName&&): legal only when the writer builds its own schema
PutColName ==
    /\ Writing /\ w.schemaWriter_ /\ w.colName_ = ""
    /\ w' = [w EXCEPT !.colName_ = "name"]
    /\ lastw' = NoLast
    /\ steps' = steps + 1
    /\ UNCHANGED <<rs, fin, fieldEnd, rows, rsg, cordVars, numVars>>

\* operator<<(ColType&&)
PutColType ==
    /\ Writing /\ w.schemaWriter_ /\ w.colType_ = ""
    /\ \E t \in ColTypes : w' = [w EXCEPT !.colType_ = t]
    /\ lastw' = NoLast
    /\ steps' = steps + 1
    /\ UNCHANGED <<rs, fin, fieldEnd, rows, rsg, cordVars, numVars>>

\* operator<<(Skip&&): legal only when a schema was supplied
PutSkip ==
    /\ Writing /\ ~w.schemaWriter_
    /\ \E n \in SkipCounts :
         /\ w' = Skip(w, n)
         /\ fieldEnd' = fieldEnd \o SkipEnds(w, n)
         /\ lastw' = [op |-> "skip", n |-> n, w |-> w]
    /\ steps' = steps + 1
    /\ UNCHANGED <<rs, fin, rows, rsg, cordVars, numVars>>

\* What one finalize request (encode, encodeTo, encodeToIOBuf) taking the
\* writer from rw to rw2 and yielding the bytes out adds to the record
FinAfter(rw, rw2, out, via) ==
    LET base  == IF rw.encoded_ THEN rw ELSE Padded(rw)
        first == fin.calls = 0
    IN  [calls      |-> fin.calls + 1,
         hdr        |-> fin.hdr + (IF Len(rw2.cord_.head_) > Len(base.cord_.head_)
                                   THEN 1 ELSE 0),
         out        |-> out,
         first      |-> IF first THEN out ELSE fin.first,
         sizeBefore |-> IF first THEN RowWriter_size(rw) ELSE fin.sizeBefore,
         body       |-> IF first THEN apply(base.cord_) ELSE fin.body,
         snap       |-> IF first
                        THEN <<rw2.blockOffsets_, rw2.colNum_, rw2.cord_.size_>>
                        ELSE fin.snap,
         buf        |-> clone(rw2.cord_),
         padded     |-> IF first THEN base.colNum_ - rw.colNum_ ELSE fin.padded,
         vias       |-> fin.vias \cup {via},
         skip       |-> IF first THEN ~rw.encoded_ /\ PadsBeforeHeader(rw) ELSE fin.skip,
         raw        |-> IF first THEN apply(rw.cord_) ELSE fin.raw]

PadEnds(rw) ==
    IF rw.encoded_ \/ rw.schemaWriter_ THEN <<>>
    ELSE SkipEnds(rw, getNumFields(rw.schema_) - rw.colNum_)

Finalize(rw2, out, via) ==
    /\ w' = rw2
    /\ fin' = FinAfter(w, rw2, out, via)
    /\ fieldEnd' = fieldEnd \o PadEnds(w)
    /\ lastw' = NoLast
    /\ steps' = steps + 1
    /\ UNCHANGED <<rs, rows, rsg, cordVars, numVars>>

\* std::string encode()
Encode ==
    /\ Running /\ w.live
    /\ Finalize(encodeTo(w), apply(encodeTo(w).cord_), "encode")

\* void encodeTo(std::string&)
EncodeTo ==
    /\ Running /\ w.live
    /\ Finalize(encodeTo(w), apply(encodeTo(w).cord_), "encodeTo")

\* std::unique_ptr<folly::IOBuf> encodeToIOBuf()
EncodeToIOBuf ==
    /\ Running /\ w.live
    /\ Finalize(encodeToIOBuf(w), Flatten(clone(encodeToIOBuf(w).cord_)), "encodeToIOBuf")

\* RowSetWriter::addRow(RowWriter&)
AddRowWriter ==
    /\ Running /\ w.live
    /\ rs' = addRowWriter(rs, w)
    /\ w' = encodeTo(w)
    /\ fin' = FinAfter(w, encodeTo(w), apply(encodeTo(w).cord_), "addRow")
    /\ fieldEnd' = fieldEnd \o PadEnds(w)
    /\ lastw' = NoLast
    /\ rows' = [rows EXCEPT !.inl = Append(@, apply(encodeTo(w).cord_))]
    /\ rsg' = [rsg EXCEPT !.inlOnlyRows = FALSE,
                          !.prefix = RowWriter_size(w),
                          !.rowLen = StrLen(apply(encodeTo(w).cord_))]
    /\ steps' = steps + 1
    /\ UNCHANGED <<cordVars, numVars>>

\* RowSetWriter::addRow(RowWriter&&)
AddRowMove ==
    /\ Running /\ w.live
    /\ LET row == encodeTo(w).cord_.head_
       IN  /\ IF HeadroomFits(row)
              THEN /\ rs' = addRowBuf(rs, row)
                   /\ rows' = [rows EXCEPT !.chain = Append(@, Flatten(row))]
                   /\ rsg' = rsg
              ELSE /\ rsg' = [rsg EXCEPT !.failed = "writer"]
                   /\ UNCHANGED <<rs, rows>>
           /\ w' = RowWriter_move(w)
           /\ fin' = FinAfter(w, encodeTo(w), Flatten(row), "move")
    /\ fieldEnd' = fieldEnd \o PadEnds(w)
    /\ lastw' = NoLast
    /\ steps' = steps + 1
    /\ UNCHANGED <<cordVars, numVars>>

Buffers ==
    { <<[id |-> 0, capacity |-> 16, headroom |-> 10, data |-> Bytes(<<122>>)]>>,
      <<[id |-> 0, capacity |-> 256, headroom |-> 1, data |-> Run(121, 200)]>>,
      <<[id |-> 0, capacity |-> 8, headroom |-> 0, data |-> Bytes(<<119>>)]>> }

\* RowSetWriter::addRow(std::unique_ptr<folly::IOBuf>)
AddRowBuf ==
    /\ Running
    /\ \E row \in Buffers :
         IF HeadroomFits(row)
         THEN /\ rs' = addRowBuf(rs, row)
              /\ rows' = [rows EXCEPT !.chain = Append(@, Flatten(row))]
              /\ rsg' = rsg
         ELSE /\ rsg' = [rsg EXCEPT !.failed = "buffer"]
              /\ UNCHANGED <<rs, rows>>
    /\ steps' = steps + 1
    /\ UNCHANGED <<w, fin, fieldEnd, lastw, cordVars, numVars>>

Next ==
    \/ PutBool
    \/ PutFloat
    \/ PutDouble
    \/ PutString
    \/ PutColName
    \/ PutColType
    \/ PutSkip
    \/ Encode
    \/ EncodeTo
    \/ EncodeToIOBuf
    \/ AddRowWriter
    \/ AddRowMove
    \/ AddRowBuf

Spec == Init /\ [][Next]_vars

(***************************************************************************)
(* RowSetWriter alone: rows and row sets handed over by value or as buffers *)
(***************************************************************************)
RowBytes == { <<>>, Bytes(<<97, 98>>), Bytes(<<99, 100, 101>>), Run(120, 200),
              Run(113, 20000) }

Framed == { Bytes(<<1, 102>>) }

RowSetInit == CordIdle /\ RowIdle /\ NumIdle

AddRowBytes ==
    /\ Running
    /\ \E data \in RowBytes :
         /\ rs' = addRowBytes(rs, data)
         /\ rows' = [rows EXCEPT !.inl = Append(@, data)]
    /\ steps' = steps + 1
    /\ UNCHANGED <<w, fin, fieldEnd, rsg, lastw, cordVars, numVars>>

AddAllBytes ==
    /\ Running
    /\ \E data \in Framed : rs' = addAllBytes(rs, data)
    /\ rsg' = [rsg EXCEPT !.inlOnlyRows = FALSE]
    /\ steps' = steps + 1
    /\ UNCHANGED <<w, fin, fieldEnd, rows, lastw, cordVars, numVars>>

AddAllBuf ==
    /\ Running
    /\ \E b \in Buffers : rs' = addAllBuf(rs, b)
    /\ rsg' = [rsg EXCEPT !.chainOnlyRows = FALSE]
    /\ steps' = steps + 1
    /\ UNCHANGED <<w, fin, fieldEnd, rows, lastw, cordVars, numVars>>

RowSetNext ==
    \/ AddRowBytes
    \/ AddAllBytes
    \/ AddRowBuf
    \/ AddAllBuf

SpecRowSet == RowSetInit /\ [][RowSetNext]_vars

CordStart == CordInit /\ RowIdle /\ NumIdle

SpecCord == CordStart /\ [][CordNext]_vars

(***************************************************************************)
(* calcOccupiedBytes alone, on 64-bit values built from boundary bytes     *)
(***************************************************************************)
Octets == {0, 1, 128, 255}

Values64 == [1..8 -> Octets]

WidthInit ==
    /\ CordIdle
    /\ RowIdle
    /\ v64 \in Values64
    /\ occupied = 0

Measure ==
    /\ occupied = 0
    /\ occupied' = calcOccupiedBytes(v64)
    /\ UNCHANGED <<v64, cordVars, rowVars>>

WidthNext == Measure

SpecWidth == WidthInit /\ [][WidthNext]_vars

(***************************************************************************)
(* Helpers of the properties: an independent reader of the encoded bytes   *)
(***************************************************************************)
RECURSIVE Explicit(_)
Explicit(s) ==
    IF s = <<>> THEN <<>>
    ELSE [i \in 1..s[1].n |-> s[1].b] \o Explicit(Tail(s))

RECURSIVE ValueLE(_)
ValueLE(q) == IF q = <<>> THEN 0 ELSE q[1] + 256 * ValueLE(Tail(q))

Slice(s, from, n) == Take(Drop(s, from), n)

\* Reads one varint at the front of s: [val, used]
RECURSIVE DecodeVarint(_)
DecodeVarint(s) ==
    IF s = <<>> THEN [val |-> 0, used |-> 0]
    ELSE IF s[1].b < 128 THEN [val |-> s[1].b, used |-> 1]
    ELSE LET rest == DecodeVarint(Drop(s, 1))
         IN  [val |-> (s[1].b - 128) + 128 * rest.val, used |-> 1 + rest.used]

\* Reads a varint, then that many bytes, until the input ends or max rows
\* have been read
RECURSIVE DecodeRows(_, _)
DecodeRows(s, max) ==
    IF s = <<>> \/ max = 0 THEN <<>>
    ELSE LET v == DecodeVarint(s)
         IN  <<Slice(s, v.used, v.val)>>
             \o DecodeRows(Drop(s, v.used + v.val), max - 1)

FixedSchema == ~w.schemaWriter_

(***************************************************************************)
(* Properties                                                              *)
(***************************************************************************)

\* C1: for a fixed schema and any number of fields written, the value size()
\* returns immediately before the first finalize equals the byte length of
\* the row that finalize returns.
C1_SizeBeforeFinalize ==
    (FixedSchema /\ fin.calls >= 1) => fin.sizeBefore = StrLen(fin.first)

\* C2: finalize is idempotent: over any sequence of encode(), encodeTo() and
\* encodeToIOBuf() calls the header is synthesized and prepended exactly once,
\* every call yields the same bytes, and the calls after the first leave
\* blockOffsets_, colNum_ and the buffer size as the first call left them.
C2_FinalizeIdempotent ==
    (w.live /\ fin.calls >= 1) =>
        /\ fin.hdr = 1
        /\ fin.out = fin.first
        /\ <<w.blockOffsets_, w.colNum_, w.cord_.size_>> = fin.snap
        /\ apply(w.cord_) = fin.first

C2_Witness ==
    /\ w.live
    /\ fin.vias = {"encode", "encodeTo", "encodeToIOBuf"}
    /\ Len(w.blockOffsets_) >= 1

\* C3: for an N-field fixed schema, once all N fields have been produced,
\* blockOffsets_ holds, in ascending order of i, exactly one entry for each
\* field index i with 0 < i < N and i mod 16 = 0, and that entry is the body
\* size measured right after field i was written.
C3_BlockOffsets ==
    LET N == getNumFields(w.schema_)
    IN  (FixedSchema /\ w.colNum_ = N) =>
            /\ Len(fieldEnd) = N
            /\ w.blockOffsets_ = [k \in 1..((N - 1) \div 16) |-> fieldEnd[16 * k + 1]]

C3_Witness ==
    /\ FixedSchema /\ ~w.encoded_
    /\ w.colNum_ = getNumFields(w.schema_)
    /\ Len(w.blockOffsets_) = 2
    /\ steps >= 3

\* C4: the bytes finalize produces are one header byte, then the schema
\* version in versionWidth bytes (only when version > 0), then every recorded
\* block offset in offsetWidth bytes each, in recording order, then the
\* unmodified body bytes, with offsetWidth = minimalWidth(body size).
C4_Layout ==
    LET body == fin.body
        ow   == calcOccupiedBytes(U64(StrLen(body)))
        vw   == IF Positive(w.schema_.ver) THEN calcOccupiedBytes(w.schema_.ver) ELSE 0
        n    == Len(w.blockOffsets_)
        hl   == 1 + vw + ow * n
    IN  fin.calls >= 1 =>
            /\ StrLen(fin.first) = hl + StrLen(body)
            /\ Explicit(Slice(fin.first, 1, vw)) = SubSeq(w.schema_.ver, 1, vw)
            /\ \A i \in 1..n :
                   ValueLE(Explicit(Slice(fin.first, 1 + vw + ow * (i - 1), ow)))
                       = w.blockOffsets_[i]
            /\ Drop(fin.first, hl) = body

C4_Witness ==
    /\ fin.calls >= 1
    /\ Positive(w.schema_.ver)
    /\ Len(w.blockOffsets_) = 2
    /\ calcOccupiedBytes(U64(StrLen(fin.body))) = 2
    /\ fin.padded < getNumFields(w.schema_)

\* C5: after any sequence of Cord appends (scalar, byte range, C string,
\* other Cord) starting from an empty or pre-sized Cord, the segments apply()
\* visits, concatenated in chain order, are exactly the appended bytes in
\* append order.
C5_AppendsKept ==
    pureA => (~crashed /\ ~applyFaults(A) /\ apply(A) = wA)

\* C6: in every reachable state of a Cord the cached size_ equals the sum of
\* the data lengths of the chain, and is 0 when the Cord holds no head: the
\* two DCHECKs of size() cannot fail.
C6_SizeCached ==
    /\ A.head_ = <<>> => A.size_ = 0
    /\ A.head_ # <<>> => A.size_ = computeChainDataLength(A.head_)

\* C7 as stated: a chained segment is sized clamp(max(capacity*2, needed),
\* 256 KiB), so no segment the growth policy allocates is above the ceiling.
C7_CeilingAlways ==
    grow.branch = "chain" =>
        /\ grow.requested = Min(Max(grow.capacity * 2, grow.size), kMaxGrowthSize)
        /\ grow.requested <= kMaxGrowthSize

\* C7 amended: a chained segment is sized max(min(capacity*2, 256 KiB),
\* needed); the ceiling caps the doubling only, so the segment is above
\* 256 KiB exactly when the requested write is, and then it is that size.
C7_CeilingOnDoubling ==
    grow.branch = "chain" =>
        /\ grow.requested = Max(Min(grow.capacity * 2, kMaxGrowthSize), grow.size)
        /\ grow.requested >= grow.size
        /\ grow.requested > kMaxGrowthSize <=> grow.size > kMaxGrowthSize

C7_Witness ==
    /\ grow.branch = "chain"
    /\ grow.capacity * 2 > kMaxGrowthSize
    /\ grow.requested = kMaxGrowthSize

\* C8: after any sequence of addRow(bytes) calls on an empty inline buffer,
\* reading a varint (7 value bits per byte, continuation bit on all but the
\* last byte) and then that many bytes, repeatedly, returns exactly the rows
\* added, in order, and uses up the buffer.
C8_InlineFraming ==
    rsg.inlOnlyRows => DecodeRows(rs.data_, Len(rows.inl) + 1) = rows.inl

C8_Witness ==
    /\ rsg.inlOnlyRows
    /\ rows.inl = <<Bytes(<<97, 98>>), Bytes(<<99, 100, 101>>), <<>>, Run(120, 200)>>
    /\ rs.data_ = Cat(Bytes(<<2, 97, 98, 3, 99, 100, 101, 0, 200, 1>>), Run(120, 200))

\* C9: every buffer finalize produces has at least 10 bytes of headroom in
\* front of its header byte, so the headroom assertion of the ownership-taking
\* addRow never fails on it; the varint of the row's chain length sits right
\* before the row's first byte, and the rows are in bufferChain in insertion
\* order.
C9_Headroom ==
    /\ rsg.failed # "writer"
    /\ (w.live /\ fin.calls >= 1) =>
           /\ fin.buf[1].headroom >= maxRowLenBytes
           /\ Flatten(fin.buf) = fin.first
    /\ rsg.chainOnlyRows => DecodeRows(Flatten(rs.head_), Len(rows.chain) + 1) = rows.chain

C9_Witness ==
    /\ ~w.live
    /\ Len(rows.chain) = 2
    /\ rows.chain[2] = fin.first
    /\ StrLen(rows.chain[2]) >= 128
    /\ rs.head_[1].data = Bytes(<<1, 122>>)

C11_PrependHeader ==
    /\ last_op = "header" =>
           /\ Flatten(A.head_) = Cat(hdr.h, hdr.prev)
           /\ A.size_ = hdr.sa + StrLen(hdr.h)
           /\ hdr.had => last(A).id = hdr.tail
    /\ hdr.on =>
           /\ Take(Flatten(A.head_), StrLen(hdr.h) + StrLen(hdr.prev))
                  = Cat(hdr.h, hdr.prev)
           /\ Flatten(A.head_) = wA

\* C12: for every unsigned 64-bit v, calcOccupiedBytes(v) is the least k in
\* 1..8 with v < 256^k (v < 256^k exactly when the bytes of v above the k-th
\* are all zero), and it is 1 for 0; in particular 255 -> 1, 256 -> 2,
\* 65535 -> 2, 65536 -> 3 and 2^63 -> 8.
C12_MinimalWidth ==
    LET Below(k) == \A j \in (k + 1)..8 : v64[j] = 0
    IN  occupied # 0 =>
            /\ occupied \in 1..8
            /\ Below(occupied)
            /\ \A k \in 1..(occupied - 1) : ~Below(k)
            /\ v64 = <<0, 0, 0, 0, 0, 0, 0, 0>> => occupied = 1
            /\ v64 = <<255, 0, 0, 0, 0, 0, 0, 0>> => occupied = 1
            /\ v64 = <<0, 1, 0, 0, 0, 0, 0, 0>> => occupied = 2
            /\ v64 = <<255, 255, 0, 0, 0, 0, 0, 0>> => occupied = 2
            /\ v64 = <<0, 0, 1, 0, 0, 0, 0, 0>> => occupied = 3
            /\ v64 = <<0, 0, 0, 0, 0, 0, 0, 128>> => occupied = 8

C12_Witness ==
    /\ occupied = 8
    /\ v64 = <<0, 0, 0, 0, 0, 0, 0, 128>>

\* C13 as stated: when the writer is in schema-defining mode (no schema was
\* supplied at construction), finalize runs the padding operation (skip)
\* before it builds the header.
C13_PadsWhenDefining ==
    (fin.calls >= 1 /\ w.schemaWriter_) => fin.skip

\* C13 amended: finalize runs the padding operation exactly when the writer
\* is in fixed-schema mode (a schema was supplied at construction); it then
\* pads every field not yet written, and the header it builds afterwards
\* counts the block offsets of the padded row.  In schema-defining mode
\* finalize pads nothing and the body is encoded as it stands.
C13_PadsWhenFixed ==
    LET N  == getNumFields(w.schema_)
        ow == calcOccupiedBytes(U64(StrLen(fin.body)))
        vw == IF Positive(w.schema_.ver) THEN calcOccupiedBytes(w.schema_.ver) ELSE 0
    IN  fin.calls >= 1 =>
            /\ fin.skip <=> FixedSchema
            /\ FixedSchema =>
                   /\ w.colNum_ = N
                   /\ Len(fieldEnd) = N
                   /\ N > 0 => StrLen(fin.first) - StrLen(fin.body)
                                   = 1 + vw + ow * ((N - 1) \div 16)
            /\ ~FixedSchema =>
                   /\ fin.padded = 0
                   /\ fin.body = fin.raw

C13_Witness ==
    /\ FixedSchema
    /\ fin.calls >= 1
    /\ fin.padded >= 17
    /\ fin.padded < getNumFields(w.schema_)

\* C14: addRow(RowWriter&) keeps the inline buffer well framed in every writer
\* state: the length prefix it writes, writer.size() taken before encoding,
\* equals the number of row bytes encodeTo then appends, whether all fields
\* were written, fields were still to be padded, or the writer had been
\* finalized before.
C14_AddRowFramed ==
    "addRow" \in fin.vias => rsg.prefix = rsg.rowLen

\* The parts of C15 that do not depend on how the in-place figure is read:
\* after makeRoomForWrite(n) the write tail has n free bytes, no segment ever
\* holds more than its capacity, a Cord without a head gets one segment of
\* roundUp256(n), a tail with room is left alone, and the chained branch
\* (tail more than half full) adds one segment of capacity >= n.
RoomForWriteCommon ==
    /\ \A i \in 1..Len(A.head_) : tailroom(A.head_[i]) >= 0
    /\ grow.set =>
           /\ grow.roomAfter >= grow.size
           /\ ~grow.had =>
                  /\ grow.segsAfter = 1
                  /\ grow.capAfter = alignedSize(grow.size)
           /\ (grow.had /\ grow.size <= grow.room) =>
                  /\ grow.segsAfter = grow.segs /\ grow.sameTail
                  /\ grow.capAfter = grow.capacity
                  /\ grow.roomAfter = grow.room
           /\ (grow.had /\ grow.size > grow.room /\ 2 * grow.len > grow.capacity) =>
                  /\ grow.segsAfter = grow.segs + 1 /\ ~grow.sameTail
                  /\ grow.capAfter >= grow.size

InPlaceCase == grow.set /\ grow.had /\ grow.size > grow.room
                   /\ grow.len <= grow.capacity \div 2

\* C15 as stated: the in-place branch grows the same segment to
\* roundUp256(capacity + n - room).
C15_GrowsToRequested ==
    /\ RoomForWriteCommon
    /\ InPlaceCase =>
           /\ grow.segsAfter = grow.segs /\ grow.sameTail
           /\ grow.capAfter = alignedSize(grow.capacity + grow.size - grow.room)

\* C15 amended: the in-place branch (tail at most half full, room missing)
\* keeps the same segment and makes its free room at least
\* roundUp256(capacity + n - room); in every branch the write tail has at
\* least n free bytes when makeRoomForWrite(n) returns, so the copy of n
\* bytes that follows stays inside the tail segment.
C15_RoomForWrite ==
    /\ RoomForWriteCommon
    /\ InPlaceCase =>
           /\ grow.segsAfter = grow.segs /\ grow.sameTail
           /\ grow.roomAfter >= alignedSize(grow.capacity + grow.size - grow.room)
           /\ grow.capAfter >= grow.len + grow.roomAfter

C15_Witness ==
    /\ InPlaceCase
    /\ grow.len > 0
    /\ grow.size = 300000
    /\ last_op = "bytes"
    /\ StrLen(last(A).data) = grow.len + 300000

\* C16: for every schema version > 0 and every body size both widths can be
\* read back from the header byte: its low 3 bits are offsetWidth - 1 and its
\* bits 5..7 are versionWidth, for every versionWidth in 1..8, neither field
\* overflowing the byte.
C16_HeaderByte ==
    LET hb == fin.first[1].b
        ow == calcOccupiedBytes(U64(StrLen(fin.body)))
        vw == calcOccupiedBytes(w.schema_.ver)
    IN  (fin.calls >= 1 /\ Positive(w.schema_.ver)) =>
            /\ hb \in 0..255
            /\ hb % 8 = ow - 1
            /\ hb \div 32 = vw

\* Length of the default value Skip writes for a field of the given type
DefaultLen(type) ==
    CASE type = "BOOL" -> 1
      [] type = "FLOAT" -> 4
      [] type \in {"DOUBLE", "VID"} -> 8
      [] type \in {"INT", "TIMESTAMP", "STRING"} -> 1

RECURSIVE DefaultsLen(_, _, _)
DefaultsLen(schema, from, to) ==
    IF from >= to THEN 0
    ELSE DefaultLen(getFieldType(schema, from)) + DefaultsLen(schema, from + 1, to)

\* C17: in fixed-schema mode skip(n) with n > 0 writes one default value for
\* each of the next min(n, fieldCount - columnIndex) fields and advances
\* columnIndex by exactly that amount, so columnIndex never decreases and
\* never exceeds fieldCount; skip(n) with n <= 0, or with columnIndex already
\* at fieldCount, leaves body, columnIndex and blockOffsets as they were.
C17_SkipBounded ==
    LET b == lastw.w
        N == getNumFields(w.schema_)
        k == IF lastw.n > 0 THEN Min(lastw.n, N - b.colNum_) ELSE 0
    IN  /\ FixedSchema => w.colNum_ \in 0..N
        /\ lastw.op = "skip" =>
               /\ w.colNum_ = b.colNum_ + k
               /\ w.colNum_ >= b.colNum_
               /\ apply(w.cord_) = Cat(apply(b.cord_),
                      Run(0, DefaultsLen(w.schema_, b.colNum_, b.colNum_ + k)))
               /\ Len(fieldEnd) = w.colNum_
               /\ k = 0 => w = b

C17_Witness ==
    /\ lastw.op = "skip"
    /\ lastw.n = 40
    /\ lastw.w.colNum_ = 17
    /\ w.colNum_ = 34
    /\ Len(w.blockOffsets_) = 2

\* C18: in fixed-schema mode, after the first finalize columnIndex equals
\* fieldCount whatever number of fields had been written: the finalized row
\* carries exactly one encoded value for every schema field, the unwritten
\* trailing fields holding their type's default, and finalize never runs an
\* operation that is illegal for the writer's mode (skip in schema-defining
\* mode, control tokens in fixed-schema mode).
C18_RowComplete ==
    LET N  == getNumFields(w.schema_)
        hl == StrLen(fin.first) - StrLen(fin.body)
    IN  /\ (FixedSchema /\ fin.calls >= 1) =>
               /\ w.colNum_ = N
               /\ Len(fieldEnd) = N
               /\ \A i \in 1..N : fieldEnd[i] > (IF i = 1 THEN 0 ELSE fieldEnd[i - 1])
               /\ N > 0 => fieldEnd[N] = StrLen(fin.body)
               /\ fin.body = Cat(fin.raw, Run(0, DefaultsLen(w.schema_, N - fin.padded, N)))
               /\ Drop(fin.first, hl) = fin.body
        /\ fin.calls >= 1 => (fin.skip => ~w.schemaWriter_)
        /\ FixedSchema => (w.colName_ = "" /\ w.colType_ = "")
        /\ (~FixedSchema /\ fin.calls >= 1) => w.colNum_ = N

C18_Witness ==
    /\ FixedSchema
    /\ fin.calls >= 1
    /\ fin.padded = 15
    /\ getNumFields(w.schema_) = 17
    /\ StrLen(fin.raw) = 5
    /\ StrLen(fin.body) > StrLen(fin.raw) + 15

\* C19: before finalize blockOffsets_ is non-decreasing and every entry is at
\* most the current body size; hence at finalize every recorded offset fits
\* the offsetWidth = minimalWidth(final body size) bytes the header declares,
\* and the offsetWidth low-order bytes copied into the header give the
\* offset back untruncated.
C19_OffsetsFit ==
    LET offs == w.blockOffsets_
        n    == Len(offs)
        ow   == (fin.first[1].b % 8) + 1
        vw   == IF Positive(w.schema_.ver) THEN calcOccupiedBytes(w.schema_.ver) ELSE 0
    IN  /\ \A i \in 1..(n - 1) : offs[i] <= offs[i + 1]
        /\ (w.live /\ ~w.encoded_) => \A i \in 1..n : offs[i] <= w.cord_.size_
        /\ fin.calls >= 1 =>
               /\ \A i \in 1..n : offs[i] <= StrLen(fin.body)
               /\ StrLen(fin.first) = 1 + vw + ow * n + StrLen(fin.body)
               /\ \A i \in 1..n :
                      ValueLE(Explicit(Slice(fin.first, 1 + vw + ow * (i - 1), ow)))
                          = offs[i]

C19_Witness ==
    /\ fin.calls >= 1
    /\ Len(w.blockOffsets_) = 2
    /\ w.blockOffsets_[1] < 256
    /\ w.blockOffsets_[2] > 255
    /\ fin.first[1].b % 8 = 1

\* C20: appending a non-empty Cord B into a Cord A that holds no head segment
\* (default-constructed, cleared or moved-from) completes without touching
\* the missing head and leaves A with B's content and B's size; appending an
\* empty B leaves A unchanged in every state.
C20_AppendIntoHeadless ==
    /\ ~crashed
    /\ (last_op = "cord" /\ ~pre.had /\ pre.sb # 0) =>
           /\ apply(A) = pre.b
           /\ A.size_ = pre.sb
    /\ (last_op = "cord" /\ pre.sb = 0) =>
           /\ Flatten(A.head_) = pre.a
           /\ A.size_ = pre.sa

====
